---- MODULE Spec2Model ----
(***************************************************************************)
(* Model of the objmodel package of the Elasticsearch exporter:            *)
(* Document / Value, the attribute importer, Sort, Dedup and Serialize.    *)
(*                                                                         *)
(* Keys are Go strings; they are modelled as sequences of byte codes so    *)
(* that byte-wise comparison, len() and strings.HasPrefix are computed.    *)
(* String payloads that the code only copies are TLA+ strings.             *)
(***************************************************************************)
EXTENDS Integers, Sequences, FiniteSets, TLC

\* ------------------------------------------------------------------------
\* Bounds of the model
\* ------------------------------------------------------------------------
MaxFields == 3      \* most top-level fields of a Document
MaxDedup == 2       \* most Dedup calls on one Document
MaxFailAt == 3      \* latest visitor call at which the sink starts to fail
MaxAttrs == 2       \* most entries of an imported attribute map

\* ------------------------------------------------------------------------
\* Kind (objmodel.go 49-61)
\* ------------------------------------------------------------------------
KindNil == 0
KindBool == 1
KindInt == 2
KindDouble == 3
KindString == 4
KindArr == 5
KindObject == 6
KindTimestamp == 7
KindIgnore == 8

nilValue == [kind |-> KindNil]
ignoreValue == [kind |-> KindIgnore]

StringValue(str) == [kind |-> KindString, str |-> str]
IntValue(i) == [kind |-> KindInt, primitive |-> i]
DoubleValue(d) == [kind |-> KindDouble, dbl |-> d]
BoolValue(b) == [kind |-> KindBool, primitive |-> IF b THEN 1 ELSE 0]
ArrValue(values) == [kind |-> KindArr, arr |-> values]
TimestampValue(ts) == [kind |-> KindTimestamp, ts |-> ts]
\* Value{kind: KindObject, doc: sub}
ObjectValue(flds) == [kind |-> KindObject, doc |-> flds]

\* field{key: key, value: v}
Field(key, v) == [key |-> key, value |-> v]

\* ------------------------------------------------------------------------
\* Go strings as byte sequences
\* ------------------------------------------------------------------------
\* the literal ".value" of Dedup
DotValue == <<46, 118, 97, 108, 117, 101>>
\* the literal "." of flattenKey
DotSep == <<46>>

Min(a, b) == IF a < b THEN a ELSE b

\* Go's s < t on strings: byte-wise lexicographic order
StrLess(s, t) ==
    \/ \E i \in 1..Min(Len(s), Len(t)) :
          /\ s[i] < t[i]
          /\ \A j \in 1..(i - 1) : s[j] = t[j]
    \/ /\ Len(s) < Len(t)
       /\ \A j \in 1..Len(s) : s[j] = t[j]

\* strings.HasPrefix(s, prefix)
HasPrefix(s, prefix) ==
    /\ Len(s) >= Len(prefix)
    /\ SubSeq(s, 1, Len(prefix)) = prefix

\* ------------------------------------------------------------------------
\* Sort (objmodel.go 113-122, 235-244)
\* ------------------------------------------------------------------------
\* mutant of KeyLess: the comparison the wrong way round
KeyLessReversed(f, g) == StrLess(g.key, f.key)

\* the less function handed to sort.SliceStable
KeyLess(f, g) == StrLess(f.key, g.key)

\* sort.SliceStable: the one permutation that is ordered by less and keeps
\* the relative order of elements that less does not separate; computed by
\* stable insertion.
RECURSIVE InsertStable(_, _)
InsertStable(sorted, f) ==
    IF sorted = <<>> THEN <<f>>
    ELSE IF KeyLess(f, sorted[Len(sorted)])
         THEN Append(InsertStable(SubSeq(sorted, 1, Len(sorted) - 1), f),
                     sorted[Len(sorted)])
         ELSE Append(sorted, f)

RECURSIVE SliceStable(_)
SliceStable(flds) ==
    IF flds = <<>> THEN <<>>
    ELSE InsertStable(SliceStable(SubSeq(flds, 1, Len(flds) - 1)),
                      flds[Len(flds)])

RECURSIVE DocSort(_)
RECURSIVE ValueSort(_)
\* mutant of ValueSort: the elements of an array are left as they are
ValueSortObjectsOnly(v) ==
    IF v.kind = KindObject THEN ObjectValue(DocSort(v.doc)) ELSE v

DocSort(flds) ==
    LET s == SliceStable(flds)
    IN  [i \in 1..Len(s) |-> Field(s[i].key, ValueSort(s[i].value))]

ValueSort(v) ==
    IF v.kind = KindObject THEN ObjectValue(DocSort(v.doc))
    ELSE IF v.kind = KindArr
         THEN ArrValue([i \in 1..Len(v.arr) |-> ValueSort(v.arr[i])])
         ELSE v

\* ------------------------------------------------------------------------
\* Dedup (objmodel.go 124-151, 246-255)
\* ------------------------------------------------------------------------
\* the condition of the rename loop, on the slice as it is at iteration i
RenameCond(flds, i) ==
    /\ Len(flds[i].key) < Len(flds[i + 1].key)
    /\ HasPrefix(flds[i + 1].key, flds[i].key)

\* pass 1: for i := 0; i < len-1; i++ { rename in place }
RECURSIVE RenamePass(_, _)
RenamePass(flds, i) ==
    IF i >= Len(flds) THEN flds
    ELSE RenamePass(
            IF RenameCond(flds, i)
            THEN [flds EXCEPT ![i].key = flds[i].key \o DotValue]
            ELSE flds,
            i + 1)

\* pass 2: for i := 0; i < len-1; i++ { mark field i if key equals next }
RECURSIVE MarkPass(_, _)
MarkPass(flds, i) ==
    IF i >= Len(flds) THEN flds
    ELSE MarkPass(
            IF flds[i].key = flds[i + 1].key
            THEN [flds EXCEPT ![i].value = ignoreValue]
            ELSE flds,
            i + 1)

RECURSIVE DocDedup(_)
RECURSIVE ValueDedup(_)
DocDedup(flds) ==
    LET m == MarkPass(RenamePass(flds, 1), 1)
    IN  [i \in 1..Len(m) |-> Field(m[i].key, ValueDedup(m[i].value))]

ValueDedup(v) ==
    IF v.kind = KindObject THEN ObjectValue(DocDedup(v.doc))
    ELSE IF v.kind = KindArr
         THEN ArrValue([i \in 1..Len(v.arr) |-> ValueDedup(v.arr[i])])
         ELSE v

\* ------------------------------------------------------------------------
\* Attribute importer (objmodel.go 68-80, 109-111, 214-233, 294-333)
\* ------------------------------------------------------------------------
\* pdata.AttributeValue: a type tag and the payload of that type; a MAP holds
\* its entries [k, v] in the order ForEach walks them.
AttributeValueNULL == "NULL"
AttributeValueSTRING == "STRING"
AttributeValueINT == "INT"
AttributeValueDOUBLE == "DOUBLE"
AttributeValueBOOL == "BOOL"
AttributeValueMAP == "MAP"
AttributeValueARRAY == "ARRAY"

AttrNull == [type |-> AttributeValueNULL]
AttrInt(i) == [type |-> AttributeValueINT, int |-> i]
AttrDouble(d) == [type |-> AttributeValueDOUBLE, dbl |-> d]
AttrString(s) == [type |-> AttributeValueSTRING, str |-> s]
AttrBool(b) == [type |-> AttributeValueBOOL, bool |-> b]
AttrMap(entries) == [type |-> AttributeValueMAP, map |-> entries]
AttrArray(elems) == [type |-> AttributeValueARRAY, arr |-> elems]
Entry(k, v) == [k |-> k, v |-> v]

\* mutant of flattenKey: the empty path is not told apart
flattenKeyAlwaysDot(path, key) == path \o DotSep \o key

flattenKey(path, key) ==
    IF path = <<>> THEN key ELSE path \o DotSep \o key

RECURSIVE appendAttributeFields(_, _, _)
RECURSIVE appendAttributeValue(_, _, _, _)
RECURSIVE ValueFromAttribute(_)
RECURSIVE arrFromAttributes(_)
RECURSIVE DocumentFromAttributesWithPath(_, _)

\* am.ForEach(func(k, val) { fields = appendAttributeValue(fields, path, k, val) })
appendAttributeFields(flds, path, am) ==
    IF am = <<>> THEN flds
    ELSE appendAttributeFields(
            appendAttributeValue(flds, path, am[1].k, am[1].v),
            path, Tail(am))

appendAttributeValue(flds, path, key, attr) ==
    IF attr.type = AttributeValueNULL THEN flds
    ELSE IF attr.type = AttributeValueMAP
         THEN appendAttributeFields(flds, flattenKey(path, key), attr.map)
         ELSE Append(flds, Field(flattenKey(path, key), ValueFromAttribute(attr)))

DocumentFromAttributesWithPath(path, am) ==
    IF Len(am) = 0 THEN <<>>
    ELSE appendAttributeFields(<<>>, path, am)

DocumentFromAttributes(am) == DocumentFromAttributesWithPath(<<>>, am)

ValueFromAttribute(attr) ==
    CASE attr.type = AttributeValueINT -> IntValue(attr.int)
      [] attr.type = AttributeValueDOUBLE -> DoubleValue(attr.dbl)
      [] attr.type = AttributeValueSTRING -> StringValue(attr.str)
      [] attr.type = AttributeValueBOOL -> BoolValue(attr.bool)
      [] attr.type = AttributeValueARRAY -> ArrValue(arrFromAttributes(attr.arr))
      [] attr.type = AttributeValueMAP -> ObjectValue(DocumentFromAttributes(attr.map))
      [] OTHER -> nilValue

arrFromAttributes(aa) ==
    IF Len(aa) = 0 THEN <<>>
    ELSE [i \in 1..Len(aa) |-> ValueFromAttribute(aa[i])]

\* ------------------------------------------------------------------------
\* Serialize (objmodel.go 153-190, 257-292)
\* ------------------------------------------------------------------------
\* The json.Visitor is modelled by the calls made on it.  A run r is
\*   events  : the visitor calls made so far, in order
\*   written : the calls the sink accepted
\*   err     : the error value of the last call or return
\* The sink [failAt, sticky] rejects call number failAt (0: never) and, when
\* sticky, every call after it.
ErrNil == "nil"
ErrTODO == "TODO"
ErrSink == "sink"

Event(ev, arg) == [ev |-> ev, arg |-> arg]

SinkFails(sink, n) ==
    /\ sink.failAt > 0
    /\ \/ n = sink.failAt
       \/ sink.sticky /\ n > sink.failAt

\* one call w.OnXxx(...) and the error it returns
Emit(r, sink, e) ==
    LET n == Len(r.events) + 1
    IN  [events |-> Append(r.events, e),
         written |-> IF SinkFails(sink, n) THEN r.written ELSE Append(r.written, e),
         err |-> IF SinkFails(sink, n) THEN ErrSink ELSE ErrNil]

\* a call whose returned error the code drops
EmitDrop(r, sink, e) == [Emit(r, sink, e) EXCEPT !.err = ErrNil]

\* v.ts.UTC().Format(tsLayout)
tsLayout == "2006-01-02T15:04:05.000000000Z"
FormatTs(ts) == <<tsLayout, ts>>

IsNaN(d) == d = "NaN"
IsInf(d) == d \in {"+Inf", "-Inf"}

\* mutant of Filtered: only fields marked Ignore are left out
FilteredIgnoreOnly(v) == v.kind = KindIgnore

\* the filter of iterJSONFlat
Filtered(v) ==
    \/ v.kind = KindIgnore
    \/ v.kind = KindNil
    \/ v.kind = KindArr /\ Len(v.arr) = 0

RECURSIVE iterJSON(_, _, _, _)
RECURSIVE iterJSONFlat(_, _, _)
RECURSIVE FlatLoop(_, _, _, _)
RECURSIVE ValueIterJSON(_, _, _, _)
RECURSIVE ArrLoop(_, _, _, _, _)

\* mutant of iterJSONDedot: the dedot mode falls back to the flat mode
iterJSONDedotFlat(flds, r, sink) == iterJSONFlat(flds, r, sink)

iterJSONDedot(flds, r, sink) == [r EXCEPT !.err = ErrTODO]

iterJSON(flds, r, sink, dedot) ==
    IF dedot THEN iterJSONDedot(flds, r, sink)
    ELSE iterJSONFlat(flds, r, sink)

\* the dedot argument iterJSONFlat hands to fld.value.iterJSON
FlatValueDedot == TRUE

\* for i := range doc.fields { ... } of iterJSONFlat
FlatLoop(flds, i, r, sink) ==
    IF i > Len(flds) THEN [r EXCEPT !.err = ErrNil]
    ELSE IF Filtered(flds[i].value) THEN FlatLoop(flds, i + 1, r, sink)
    ELSE LET k == EmitDrop(r, sink, Event("Key", flds[i].key))
             v == ValueIterJSON(flds[i].value, k, sink, FlatValueDedot)
         IN  IF v.err # ErrNil THEN v
             ELSE FlatLoop(flds, i + 1, v, sink)

\* OnObjectStart; defer OnObjectFinished; loop.  The deferred call runs on
\* every return and its error is dropped.
iterJSONFlat(flds, r, sink) ==
    LET s == EmitDrop(r, sink, Event("ObjectStart", <<>>))
        l == FlatLoop(flds, 1, s, sink)
        f == Emit(l, sink, Event("ObjectFinished", <<>>))
    IN  [f EXCEPT !.err = l.err]

\* for i := range v.arr { ... } of Value.iterJSON
ArrLoop(arr, i, r, sink, dedot) ==
    IF i > Len(arr) THEN [r EXCEPT !.err = ErrNil]
    ELSE LET v == ValueIterJSON(arr[i], r, sink, dedot)
         IN  IF v.err # ErrNil THEN v
             ELSE ArrLoop(arr, i + 1, v, sink, dedot)

ValueIterJSON(v, r, sink, dedot) ==
    CASE v.kind = KindNil -> Emit(r, sink, Event("Nil", <<>>))
      [] v.kind = KindBool -> Emit(r, sink, Event("Bool", v.primitive = 1))
      [] v.kind = KindInt -> Emit(r, sink, Event("Int64", v.primitive))
      [] v.kind = KindDouble ->
            IF IsNaN(v.dbl) \/ IsInf(v.dbl)
            THEN Emit(r, sink, Event("Nil", <<>>))
            ELSE Emit(r, sink, Event("Float64", v.dbl))
      [] v.kind = KindString -> Emit(r, sink, Event("String", v.str))
      [] v.kind = KindTimestamp -> Emit(r, sink, Event("String", FormatTs(v.ts)))
      [] v.kind = KindObject ->
            IF Len(v.doc) = 0
            THEN Emit(r, sink, Event("Nil", <<>>))
            ELSE iterJSON(v.doc, r, sink, dedot)
      [] v.kind = KindArr ->
            LET s == EmitDrop(r, sink, Event("ArrayStart", <<>>))
                l == ArrLoop(v.arr, 1, s, sink, dedot)
            IN  IF l.err # ErrNil THEN l
                ELSE EmitDrop(l, sink, Event("ArrayFinished", <<>>))
      [] OTHER -> [r EXCEPT !.err = ErrNil]

\* json.NewVisitor(w) makes no call; Serialize returns what iterJSON returns
SerializeOp(flds, sink, dedot) ==
    iterJSON(flds, [events |-> <<>>, written |-> <<>>, err |-> ErrNil], sink, dedot)

\* ------------------------------------------------------------------------
\* Inputs
\* ------------------------------------------------------------------------
KeyA == <<97>>                          \* "a"
KeyB == <<98>>                          \* "b"
KeyAB == <<97, 98>>                     \* "ab"
KeyADotB == <<97, 46, 98>>              \* "a.b"
KeyADotValue == KeyA \o DotValue        \* "a.value"
KeyADotValueDotX == KeyADotValue \o <<46, 120>>   \* "a.value.x"

Keys == {KeyA, KeyADotB, KeyADotValue, KeyADotValueDotX}

CompositeValues ==
    { nilValue,
      ArrValue(<<>>),
      ArrValue(<<IntValue(1)>>),
      ObjectValue(<<>>),
      ObjectValue(<<Field(KeyB, IntValue(1)), Field(KeyA, IntValue(2))>>),
      ArrValue(<<ObjectValue(<<Field(KeyB, IntValue(1)), Field(KeyA, IntValue(1)),
                               Field(KeyA, IntValue(2))>>),
                 IntValue(1)>>) }

\* the (key, value) pairs handed to Add
AddInputs ==
    {Field(k, IntValue(1)) : k \in Keys}
        \cup {Field(KeyA, v) : v \in CompositeValues}

Strings == {"", "x"}
Ints == {1, 2}

\* the sinks handed to Serialize
NeverFails == [failAt |-> 0, sticky |-> FALSE]
Sinks == {NeverFails} \cup [failAt : 1..MaxFailAt, sticky : BOOLEAN]

\* attribute records
AttrKeys == {KeyA, KeyB}
Paths == {<<>>, KeyA}

AttrValues ==
    { AttrNull,
      AttrInt(1),
      AttrString("x"),
      AttrArray(<<>>),
      AttrArray(<<AttrMap(<<Entry(KeyB, AttrInt(1))>>), AttrNull>>),
      AttrMap(<<>>),
      AttrMap(<<Entry(KeyB, AttrInt(2)), Entry(KeyA, AttrNull)>>),
      AttrMap(<<Entry(KeyA, AttrMap(<<Entry(KeyB, AttrInt(1)), Entry(KeyA, AttrBool(TRUE))>>)),
                Entry(KeyB, AttrDouble("NaN"))>>) }

SeqsUpTo(S, n) == UNION {[1..m -> S] : m \in 0..n}

AttrEntries == {Entry(k, v) : k \in AttrKeys, v \in AttrValues}
AttrMaps == SeqsUpTo(AttrEntries, MaxAttrs)

\* the attribute records of the pipeline specification
SmallAttrMaps ==
    { <<Entry(KeyB, AttrInt(1))>>,
      <<Entry(KeyB, AttrNull), Entry(KeyB, AttrMap(<<Entry(KeyB, AttrInt(2))>>))>> }

\* ------------------------------------------------------------------------
\* State
\* ------------------------------------------------------------------------
VARIABLES
    fields,     \* doc.fields of the Document
    pc,         \* where the owner of the Document is: build, sorted, deduped, done
    ndedup,     \* Dedup calls made so far
    prev,       \* history: doc.fields before the last Sort or Dedup, kept
                \* until Serialize
    imp,        \* history: the last import, while it is the last operation
    out,        \* what Serialize did: its arguments, the visitor calls, the error
    hdr         \* history: doc.fields of encodeLog after its setters, before
                \* the body is handled

vars == <<fields, pc, ndedup, prev, imp, out, hdr>>

NoImport == [done |-> FALSE, path |-> <<>>, am |-> <<>>, before |-> <<>>]
NoOut == [done |-> FALSE, dedot |-> FALSE,
          events |-> <<>>, written |-> <<>>, err |-> ErrNil]

Init ==
    /\ fields = <<>>
    /\ pc = "build"
    /\ ndedup = 0
    /\ prev = <<>>
    /\ imp = NoImport
    /\ out = NoOut
    /\ hdr = <<>>

\* ------------------------------------------------------------------------
\* Operations on a Document
\* ------------------------------------------------------------------------
\* doc.Add(key, v)
Add(key, v) ==
    /\ pc = "build"
    /\ Len(fields) < MaxFields
    /\ fields' = Append(fields, Field(key, v))
    /\ imp' = NoImport
    /\ UNCHANGED <<pc, ndedup, prev, out, hdr>>

\* doc.AddString(key, v): nothing is added for the empty string
AddString(key, v) ==
    /\ pc = "build"
    /\ Len(fields) < MaxFields
    /\ fields' = IF v # "" THEN Append(fields, Field(key, StringValue(v))) ELSE fields
    /\ imp' = NoImport
    /\ UNCHANGED <<pc, ndedup, prev, out, hdr>>

\* doc.AddInt(key, value)
AddInt(key, value) ==
    /\ pc = "build"
    /\ Len(fields) < MaxFields
    /\ fields' = Append(fields, Field(key, IntValue(value)))
    /\ imp' = NoImport
    /\ UNCHANGED <<pc, ndedup, prev, out, hdr>>

\* doc.AddAttributes(key, attributes)
AddAttributes(key, attributes) ==
    /\ pc = "build"
    /\ Len(appendAttributeFields(fields, key, attributes)) <= MaxFields
    /\ fields' = appendAttributeFields(fields, key, attributes)
    /\ imp' = [done |-> TRUE, path |-> key, am |-> attributes, before |-> fields]
    /\ UNCHANGED <<pc, ndedup, prev, out, hdr>>

\* doc := DocumentFromAttributesWithPath(path, am)
NewDocument(path, am) ==
    /\ pc = "build"
    /\ fields = <<>>
    /\ ~imp.done
    /\ Len(DocumentFromAttributesWithPath(path, am)) <= MaxFields
    /\ fields' = DocumentFromAttributesWithPath(path, am)
    /\ imp' = [done |-> TRUE, path |-> path, am |-> am, before |-> <<>>]
    /\ UNCHANGED <<pc, ndedup, prev, out, hdr>>

\* doc.Sort()
Sort ==
    /\ pc = "build"
    /\ fields' = DocSort(fields)
    /\ prev' = fields
    /\ pc' = "sorted"
    /\ imp' = NoImport
    /\ UNCHANGED <<ndedup, out, hdr>>

\* doc.Dedup(), called on a Document that has been sorted
Dedup ==
    /\ pc \in {"sorted", "deduped"}
    /\ ndedup < MaxDedup
    /\ fields' = DocDedup(fields)
    /\ prev' = fields
    /\ ndedup' = ndedup + 1
    /\ pc' = "deduped"
    /\ UNCHANGED <<imp, out, hdr>>

\* doc.Serialize(w, dedot), called as encodeLog calls it: after Sort and at
\* most one Dedup
Serialize(sink, dedot) ==
    /\ pc \in {"sorted", "deduped"}
    /\ ndedup <= 1
    /\ LET r == SerializeOp(fields, sink, dedot)
       IN  out' = [done |-> TRUE, dedot |-> dedot,
                   events |-> r.events, written |-> r.written, err |-> r.err]
    /\ pc' = "done"
    /\ prev' = <<>>
    /\ UNCHANGED <<fields, ndedup, imp, hdr>>

Next ==
    \/ \E f \in AddInputs : Add(f.key, f.value)
    \/ \E v \in Strings : AddString(KeyAB, v)
    \/ \E i \in Ints : AddInt(KeyA, i)
    \/ \E am \in SmallAttrMaps : AddAttributes(KeyA, am)
    \/ \E am \in SmallAttrMaps : NewDocument(<<>>, am)
    \/ Sort
    \/ Dedup
    \/ \E sink \in Sinks, dedot \in BOOLEAN : Serialize(sink, dedot)

Spec == Init /\ [][Next]_vars

\* ------------------------------------------------------------------------
\* The importer on its own: one import of any attribute record of AttrMaps,
\* into a new Document or appended to a Document that Add has built.
\* ------------------------------------------------------------------------
BaseDocs == {<<>>, <<Field(KeyA, IntValue(1))>>}

InitImport ==
    /\ fields \in BaseDocs
    /\ pc = "build"
    /\ ndedup = 0
    /\ prev = <<>>
    /\ imp = NoImport
    /\ out = NoOut
    /\ hdr = <<>>

NextImport ==
    \/ \E path \in Paths, am \in AttrMaps : ~imp.done /\ AddAttributes(path, am)
    \/ \E path \in Paths, am \in AttrMaps : NewDocument(path, am)

SpecImport == InitImport /\ [][NextImport]_vars

\* ------------------------------------------------------------------------
\* encodeModel.encodeLog (objmodel.go 372-425), step by step on one record
\* ------------------------------------------------------------------------
KeyTimestamp == <<84, 105, 109, 101, 115, 116, 97, 109, 112>>        \* "Timestamp"
KeyTraceId == <<84, 114, 97, 99, 101, 73, 100>>          \* "TraceId"
KeySpanId == <<83, 112, 97, 110, 73, 100>>           \* "SpanId"
KeyTraceFlags == <<84, 114, 97, 99, 101, 70, 108, 97, 103, 115>>       \* "TraceFlags"
KeySeverityText == <<83, 101, 118, 101, 114, 105, 116, 121, 84, 101, 120, 116>>     \* "SeverityText"
KeySeverityNumber == <<83, 101, 118, 101, 114, 105, 116, 121, 78, 117, 109, 98, 101, 114>>   \* "SeverityNumber"
KeyName == <<78, 97, 109, 101>>             \* "Name"
KeyBody == <<66, 111, 100, 121>>             \* "Body"
KeyBodyDot == <<66, 111, 100, 121, 46>>          \* "Body."
KeyAttributes == <<65, 116, 116, 114, 105, 98, 117, 116, 101, 115>>       \* "Attributes"

\* pdata.Timestamp.AsTime(): the instant that many nanoseconds after the epoch
AsTime(ts) == [unixNano |-> ts]

\* an identifier as AddID sees it: the results of IsEmpty() and HexString()
Id(empty, hex) == [IsEmpty |-> empty, HexString |-> hex]

\* the setters, as functions of doc.fields
DocAdd(flds, key, v) == Append(flds, Field(key, v))
DocAddTimestamp(flds, key, ts) == DocAdd(flds, key, TimestampValue(AsTime(ts)))
DocAddString(flds, key, v) ==
    IF v # "" THEN DocAdd(flds, key, StringValue(v)) ELSE flds
DocAddID(flds, key, id) ==
    IF ~id.IsEmpty THEN DocAddString(flds, key, id.HexString) ELSE flds
DocAddInt(flds, key, value) == DocAdd(flds, key, IntValue(value))

\* the parts of a log record
Ids == {Id(TRUE, ""), Id(FALSE, "0a")}
Bodies ==
    { AttrNull,
      AttrInt(1),
      AttrString("x"),
      AttrMap(<<>>),
      AttrMap(<<Entry(KeyB, AttrInt(1)), Entry(KeyA, AttrNull)>>) }
RecordAttrs == {<<>>} \cup SmallAttrMaps

InitEncode ==
    /\ fields = <<>>
    /\ pc = "new"
    /\ ndedup = 0
    /\ prev = <<>>
    /\ imp = NoImport
    /\ out = NoOut
    /\ hdr = <<>>

\* lines 393-399: the seven setters
EncodeSetters(ts, traceID, spanID, flags, severityText, severityNumber, name) ==
    /\ pc = "new"
    /\ LET d1 == DocAddTimestamp(fields, KeyTimestamp, ts)
           d2 == DocAddID(d1, KeyTraceId, traceID)
           d3 == DocAddID(d2, KeySpanId, spanID)
           d4 == DocAddInt(d3, KeyTraceFlags, flags)
           d5 == DocAddString(d4, KeySeverityText, severityText)
           d6 == DocAddInt(d5, KeySeverityNumber, severityNumber)
           d7 == DocAddString(d6, KeyName, name)
       IN  /\ fields' = d7
           /\ hdr' = d7
    /\ pc' = "header"
    /\ UNCHANGED <<ndedup, prev, imp, out>>

\* lines 401-409: the switch on the type of the body assigns the Document.
\* objFromAttributesWithPath is taken to be DocumentFromAttributesWithPath and
\* object{} the Document without fields; neither is handed the old Document.
EncodeBody(body) ==
    /\ pc = "header"
    /\ fields' =
          IF body.type = AttributeValueMAP
          THEN DocumentFromAttributesWithPath(KeyBodyDot, body.map)
          ELSE IF body.type = AttributeValueNULL
               THEN <<>>
               ELSE DocAdd(<<>>, KeyBody, ValueFromAttribute(body))
    /\ pc' = "body"
    /\ UNCHANGED <<ndedup, prev, imp, out, hdr>>

\* line 411: document.AddAttributes("Attributes", record.Attributes())
EncodeAttributes(attributes) ==
    /\ pc = "body"
    /\ fields' = appendAttributeFields(fields, KeyAttributes, attributes)
    /\ pc' = "build"
    /\ UNCHANGED <<ndedup, prev, imp, out, hdr>>

\* lines 416-424: sort, dedup when m.dedup is set, Serialize with m.dedot
NextEncode ==
    \/ \E traceID \in Ids, spanID \in Ids, severityText \in Strings, name \in Strings :
          EncodeSetters(1, traceID, spanID, 1, severityText, 2, name)
    \/ \E body \in Bodies : EncodeBody(body)
    \/ \E attributes \in RecordAttrs : EncodeAttributes(attributes)
    \/ Sort
    \/ ndedup = 0 /\ Dedup
    \/ \E sink \in Sinks, dedot \in BOOLEAN : Serialize(sink, dedot)

SpecEncode == InitEncode /\ [][NextEncode]_vars

\* ------------------------------------------------------------------------
\* Vocabulary of the properties
\* ------------------------------------------------------------------------
\* the Document has been sorted and then deduplicated once
AfterSortDedup == pc = "deduped" /\ ndedup = 1

\* Serialize has run in flat mode / in dedot mode
FlatDone == out.done /\ ~out.dedot
DedotDone == out.done /\ out.dedot

Live(f) == f.value.kind # KindIgnore

\* s <= t byte-wise
StrLeq(s, t) == s = t \/ StrLess(s, t)

\* key[i+1] continues key[i] at a "." segment boundary
PathPrefixOfNext(d, i) ==
    /\ i < Len(d)
    /\ Len(d[i].key) < Len(d[i + 1].key)
    /\ HasPrefix(d[i + 1].key, d[i].key \o DotSep)

\* a later field of d has the key of field i
HasLaterTwin(d, i) == \E j \in (i + 1)..Len(d) : d[j].key = d[i].key

\* ------------------------------------------------------------------------
\* C1 .. C9: the normalizer and the serializer, under Spec
\* ------------------------------------------------------------------------
\* C1: Serialize with dedot=false on a sink that accepts every call returns
\* no error, whatever the Document holds (non-empty Objects as field values
\* or array elements included); it never ends in the unimplemented dedot path.
C1_FlatNeverFails ==
    (FlatDone /\ out.written = out.events) => out.err = ErrNil

\* C2: after Sort followed by Dedup no two top-level fields that are not
\* marked Ignore have the same key.
C2_NoDuplicateKeys ==
    AfterSortDedup =>
        \A i, j \in 1..Len(fields) :
            (i < j /\ Live(fields[i]) /\ Live(fields[j]))
                => fields[i].key # fields[j].key

\* C3: later writes win.  prev is the sorted Document, in which the fields of
\* one key stand in insertion order: after Dedup every field that had a later
\* field of its key is marked Ignore, and the last field of each key is
\* unmarked and carries its value (deduplicated inside, as step 3 does).
C3_LaterWritesWin ==
    AfterSortDedup =>
        \A i \in 1..Len(prev) :
            IF HasLaterTwin(prev, i)
            THEN fields[i].value = ignoreValue
            ELSE fields[i].value = ValueDedup(prev[i].value)

\* C4: after Sort followed by Dedup no unmarked field has a key K while
\* another unmarked field has a key that begins with K followed by ".".
C4_NoPathCollision ==
    AfterSortDedup =>
        \A i, j \in 1..Len(fields) :
            (i # j /\ Live(fields[i]) /\ Live(fields[j]))
                => ~HasPrefix(fields[j].key, fields[i].key \o DotSep)

\* C5: Dedup renames field i to key[i] + ".value" exactly when key[i] is
\* strictly shorter than key[i+1] and key[i+1] continues key[i] at a "."
\* boundary; every other key is unchanged, and the rename pass keeps values.
C5_RenameOnlyOnPathPrefix ==
    AfterSortDedup =>
        /\ Len(fields) = Len(prev)
        /\ \A i \in 1..Len(prev) :
            /\ fields[i].key = IF PathPrefixOfNext(prev, i)
                               THEN prev[i].key \o DotValue
                               ELSE prev[i].key
            /\ RenamePass(prev, 1)[i].value = prev[i].value

\* C6: a second Dedup of a sorted Document changes no key and no value.
C6_DedupIdempotent ==
    (pc = "deduped" /\ ndedup = 2) => fields = prev

\* C7 as stated: after Sort, and after the Dedup that follows it, the keys
\* are in ascending byte-wise order.
Ascending(d) == \A i \in 1..(Len(d) - 1) : StrLeq(d[i].key, d[i + 1].key)

C7_AscendingAfterDedup ==
    (pc = "sorted" \/ AfterSortDedup) => Ascending(fields)

\* C7 amended: after Sort the keys are in ascending byte-wise order; the
\* Dedup that follows keeps every field at its position, and afterwards
\* key[i] <= key[i+1] holds for every adjacent pair whose first field Dedup
\* did not rename.
C7_AscendingButRenamed ==
    /\ pc = "sorted" => Ascending(fields)
    /\ AfterSortDedup =>
        /\ Len(fields) = Len(prev)
        /\ \A i \in 1..(Len(fields) - 1) :
              fields[i].key = prev[i].key
                  => StrLeq(fields[i].key, fields[i + 1].key)

\* a deduplicated Document with a renamed field out of order and an
\* unrenamed field before a different key
C7_Witness ==
    /\ AfterSortDedup
    /\ \E i \in 1..(Len(fields) - 1) :
          fields[i].key # prev[i].key /\ StrLess(fields[i + 1].key, fields[i].key)
    /\ \E i \in 1..(Len(fields) - 1) :
          fields[i].key = prev[i].key /\ StrLess(fields[i].key, fields[i + 1].key)

\* the keys of the members of the outermost object of a call sequence
DepthBefore(events, n) ==
    Cardinality({m \in 1..(n - 1) : events[m].ev \in {"ObjectStart", "ArrayStart"}})
        - Cardinality({m \in 1..(n - 1) : events[m].ev \in {"ObjectFinished", "ArrayFinished"}})

IsTopKey(events, n) == events[n].ev = "Key" /\ DepthBefore(events, n) = 1

RECURSIVE TopKeys(_, _)
TopKeys(events, n) ==
    IF n = 0 THEN <<>>
    ELSE IF IsTopKey(events, n)
         THEN Append(TopKeys(events, n - 1), events[n].arg)
         ELSE TopKeys(events, n - 1)

ValueStarts == {"Nil", "Bool", "Int64", "Float64", "String", "ArrayStart", "ObjectStart"}

\* the fields the flat mode keeps: not Ignore, not Nil, not an empty Array
Kept(f) ==
    /\ f.value.kind # KindIgnore
    /\ f.value.kind # KindNil
    /\ ~(f.value.kind = KindArr /\ f.value.arr = <<>>)

RECURSIVE KeptKeys(_)
KeptKeys(d) ==
    IF d = <<>> THEN <<>>
    ELSE IF Kept(d[1]) THEN <<d[1].key>> \o KeptKeys(Tail(d))
         ELSE KeptKeys(Tail(d))

\* C8: when Serialize(dedot=false) returns no error, the calls it made on
\* the visitor open one object, whose members are the fields that are not
\* Ignore, not Nil and not an empty Array, in field order, each under its
\* key as it is (dots kept) and each followed by a value; no other field
\* has a member.
C8_FlatMembers ==
    (FlatDone /\ out.err = ErrNil) =>
        /\ out.events[1].ev = "ObjectStart"
        /\ out.events[Len(out.events)].ev = "ObjectFinished"
        /\ DepthBefore(out.events, Len(out.events)) = 1
        /\ TopKeys(out.events, Len(out.events)) = KeptKeys(fields)
        /\ \A n \in 1..Len(out.events) :
              IsTopKey(out.events, n) => out.events[n + 1].ev \in ValueStarts

\* a successful flat serialization of a Document with a field marked
\* Ignore, a Nil field and a kept field under a dotted key
C8_Witness ==
    /\ FlatDone
    /\ out.err = ErrNil
    /\ \E i \in 1..Len(fields) : fields[i].value.kind = KindIgnore
    /\ \E i \in 1..Len(fields) : fields[i].value.kind = KindNil
    /\ \E i \in 1..Len(fields) : Kept(fields[i]) /\ HasPrefix(fields[i].key, KeyA \o DotSep)

RECURSIVE LeafPaths(_)
LeafPaths(am) ==
    IF am = <<>> THEN <<>>
    ELSE LET e == am[1]
             sub == IF e.v.type = AttributeValueMAP THEN LeafPaths(e.v.map) ELSE <<>>
             here == IF e.v.type = AttributeValueNULL THEN <<>>
                     ELSE IF e.v.type = AttributeValueMAP
                          THEN [i \in 1..Len(sub) |-> <<e.k>> \o sub[i]]
                          ELSE << <<e.k>> >>
         IN  here \o LeafPaths(Tail(am))

RECURSIVE JoinDot(_)
JoinDot(segs) ==
    IF Len(segs) = 1 THEN segs[1]
    ELSE segs[1] \o <<46>> \o JoinDot(Tail(segs))

\* the root path counts as the first segment unless it is empty
ExpectedKey(path, segs) ==
    JoinDot(IF path = <<>> THEN segs ELSE <<path>> \o segs)

Closers == {"ObjectFinished", "ArrayFinished"}

\* C11: when serializing a nested element fails, Serialize stops at once:
\* the error is returned and no call follows the failure, so the last call
\* made on the visitor is not an end-object or end-array closing an open
\* container.
C11_StopsAtFailure ==
    (FlatDone /\ out.err # ErrNil) =>
        out.events[Len(out.events)].ev \notin Closers

\* C12: when the sink rejects any call of a flat Serialize (start-object,
\* key, start-array, end-array, end-object or a scalar), Serialize returns an
\* error.
C12_SinkFailureReturned ==
    (FlatDone /\ Len(out.written) < Len(out.events)) => out.err # ErrNil


\* C13: Sort, under Spec
\* the permutations of 1..n
Perms(n) == {p \in [1..n -> 1..n] : \A i, j \in 1..n : p[i] = p[j] => i = j}

RECURSIVE SortedDocOf(_, _)
RECURSIVE SortedValueOf(_, _)
\* s holds the fields of d, each once, in ascending byte-wise key order, fields
\* of equal key in the order they have in d, and each value sorted inside
SortedDocOf(s, d) ==
    /\ Len(s) = Len(d)
    /\ \E p \in Perms(Len(d)) :
          /\ \A i \in 1..Len(s) :
                /\ s[i].key = d[p[i]].key
                /\ SortedValueOf(s[i].value, d[p[i]].value)
          /\ \A i, j \in 1..Len(s) :
                i < j => \/ StrLess(s[i].key, s[j].key)
                         \/ s[i].key = s[j].key /\ p[i] < p[j]

\* w is v with every Document inside it sorted: an Object's fields, and the
\* elements of an Array one by one, in place
SortedValueOf(w, v) ==
    /\ w.kind = v.kind
    /\ IF v.kind = KindObject THEN SortedDocOf(w.doc, v.doc)
       ELSE IF v.kind = KindArr
            THEN /\ Len(w.arr) = Len(v.arr)
                 /\ \A i \in 1..Len(v.arr) : SortedValueOf(w.arr[i], v.arr[i])
            ELSE w = v

\* C13: after Sort the Document holds the same fields in ascending byte-wise
\* key order, fields of equal key in their earlier relative order, and the
\* same is true inside every Object value and every Array element; sorting
\* the result again changes nothing.
C13_StableSortEverywhere ==
    pc = "sorted" =>
        /\ SortedDocOf(fields, prev)
        /\ DocSort(fields) = fields

\* a Sort that moved a field at the top level, kept two fields of one key
\* with different values apart, and reordered an Object held in an Array
C13_Witness ==
    /\ pc = "sorted"
    /\ \E i, j \in 1..Len(prev) : i < j /\ StrLess(prev[j].key, prev[i].key)
    /\ \E i, j \in 1..Len(fields) :
          i < j /\ fields[i].key = fields[j].key /\ fields[i].value # fields[j].value
    /\ \E i \in 1..Len(prev) :
          /\ prev[i].value.kind = KindArr
          /\ \E j \in 1..Len(prev[i].value.arr) :
                /\ prev[i].value.arr[j].kind = KindObject
                /\ DocSort(prev[i].value.arr[j].doc) # prev[i].value.arr[j].doc


\* C14: the fields of the setters in encodeLog, under SpecEncode
\* C14: once the body of the record has been handled, and on to the sorted and
\* serialized Document, every field that the setters added (Timestamp,
\* TraceFlags, SeverityNumber, and TraceId, SpanId, SeverityText, Name when not
\* empty) is a field of the Document, whatever the type of the body.
C14_SetterFieldsKept ==
    pc \in {"body", "build", "sorted", "deduped", "done"} =>
        \A i \in 1..Len(hdr) : \E j \in 1..Len(fields) : fields[j] = hdr[i]

====
